---- MODULE Spec2Model ----
(***************************************************************************)
(* The RFP client (frontend App component): the refresh / poll / reload    *)
(* coordination of refreshRfps, loadRfps, loadSaved, fetchSavedDetail and  *)
(* the progress poll effect, as a state machine over the component's       *)
(* useState cells and the requests and timers that are outstanding.        *)
(*                                                                         *)
(* Strings the code builds by concatenation are sequences of tokens, so    *)
(* that "contains" is sub-sequence containment.                            *)
(***************************************************************************)
EXTENDS Integers, Sequences, FiniteSets, TLC

VARIABLES
    rfps,          \* useState rfps: the list shown (item ids)
    saved,         \* useState saved: the rfp_ids of the saved items
    detail,        \* useState detail: rfp_id of the open detail, NoDetail when null
    detailLoading, \* useState detailLoading
    loading,       \* useState loading
    refreshing,    \* useState refreshing
    error,         \* useState error (token sequence, <<>> is "")
    page,          \* useState page
    totalCount,    \* useState totalCount
    progress,      \* useState progress
    refreshCalls,  \* the refreshRfps invocations that have not settled
    listReqs,      \* loadRfps invocations (outside refreshRfps) awaiting GET /rfps
    savedReqs,     \* loadSaved invocations (outside refreshRfps) awaiting GET /saved
    detailReqs,    \* fetchSavedDetail invocations (outside refreshRfps) in flight
    pollers,       \* the tick loops of the poll effect that are still alive
    refreshCount,  \* number of refreshRfps invocations so far
    failed         \* the request the step taken last saw fail, "" when none did

VARIABLES
    q,             \* useState q: the quick-filter text (sequence of characters)
    clock,         \* the instant new Date() reads, in hours since the epoch (UTC)
    tzOffset,      \* the client's time zone: local time minus UTC, in hours
    uploading,     \* useState uploading
    noteText,      \* useState noteText
    savingId,      \* useState savingId
    detailDocs,    \* detail.documents of the open detail (filenames)
    calls,         \* invocations of the saved-panel handlers that have not settled
    srvSaved,      \* backend: the rfp_ids that are saved
    srvDocs        \* backend: the documents stored for the saved item

\* the state that refreshRfps, loadRfps, pagination and the poll leave alone
xvars == <<q, clock, tzOffset, uploading, noteText, savingId, detailDocs, calls,
           srvSaved, srvDocs>>

\* xvars without noteText and detailDocs, which change with detail
xvarsButDetail == <<q, clock, tzOffset, uploading, savingId, calls, srvSaved,
                    srvDocs>>

vars == <<rfps, saved, detail, detailLoading, loading, refreshing, error, page,
          totalCount, progress, refreshCalls, listReqs, savedReqs, detailReqs,
          pollers, refreshCount, failed, xvars>>

----------------------------------------------------------------------------
(* Bounds *)

MaxRefreshes == 2
MaxListReqs == 1
MaxDetailReqs == 1

----------------------------------------------------------------------------
(* Program constants and the values the backend can answer with *)

PAGE_SIZE == 100

NoDetail == 0
NoSaving == 0
RfpIds == {1}
\* the names of the files a user uploads
Files == {"scope.pdf"}

\* X-Total-Count header values: absent (<<>>) or a count
TotalHeaders == {<<>>, <<0>>, <<150>>}

ZeroProgress == [total |-> 0, done |-> 0, stage |-> ""]
\* bodies of GET /progress: JSON null, or a ProgressState
ProgressBodies == {
    ZeroProgress,
    [total |-> 4, done |-> 1, stage |-> "ingest"] }

\* how a request can end: the fetch rejects, the status is not 2xx, the body
\* does not parse, or a 2xx response with a parseable body
Outcomes == {"network", "status", "parse", "ok"}
FailOutcomes == {"network", "status", "parse"}

\* bodies of POST /refresh: unparseable, or {ok, message?, error?}.  ok is
\* FALSE for a body with ok: false and TRUE for any other body (ok: true or
\* no ok field), the only distinction the code makes (body?.ok === false);
\* an absent or empty message or error is <<>>.
NoBody == [parsed |-> FALSE, ok |-> TRUE, message |-> <<>>, error |-> <<>>]
Bodies == {NoBody} \cup
    [parsed : {TRUE}, ok : BOOLEAN, message : {<<>>, <<"refresh failed">>},
     error : {<<>>, <<"ingest timeout">>}]

NetErr == <<"Failed to fetch">>
LoadErr == <<"Could not load RFPs. Check backend.">>
RefreshFallback == <<"Refresh failed. See browser console and backend logs.">>
DetailFallback == <<"Unable to load saved RFP.">>

Contains(s, t) ==
    \E i \in 1..(Len(s) - Len(t) + 1) : SubSeq(s, i, i + Len(t) - 1) = t

\* the items of a list
Range(seq) == {seq[i] : i \in 1..Len(seq)}

Remove(s, i) == SubSeq(s, 1, i - 1) \o SubSeq(s, i + 1, Len(s))

Max(a, b) == IF a >= b THEN a ELSE b
Min(a, b) == IF a <= b THEN a ELSE b
Ceil(a, b) == (a + b - 1) \div b

totalPages == Max(1, Ceil(totalCount, PAGE_SIZE))

\* the items GET /rfps?limit=100&offset=p*100 answers with
PageItems(p) == <<p + 1>>

\* the value of failed after a step that handled the settling of request op
FailedBy(op, ok) == IF ok THEN "" ELSE op

----------------------------------------------------------------------------
(* Initial state: the component after mount.  The mount effects have run:  *)
(* loadRfps(page) and loadSaved() are in flight, refreshing is false so    *)
(* the poll effect did nothing and the reset effect wrote the zero value.  *)

Init ==
    /\ rfps = <<>>
    /\ saved = {}
    /\ detail = NoDetail
    /\ detailLoading = FALSE
    /\ loading = TRUE
    /\ refreshing = FALSE
    /\ error = <<>>
    /\ page = 0
    /\ totalCount = 0
    /\ progress = ZeroProgress
    /\ refreshCalls = <<>>
    /\ listReqs = <<[pg |-> 0, by |-> "user"]>>
    /\ savedReqs = 1
    /\ detailReqs = <<>>
    /\ pollers = <<>>
    /\ refreshCount = 0
    /\ failed = ""
    /\ q = <<>>
    /\ clock = 0
    /\ tzOffset = 0
    /\ uploading = FALSE
    /\ noteText = <<>>
    /\ savingId = NoSaving
    /\ detailDocs = {}
    /\ calls = <<>>
    /\ srvSaved = {}
    /\ srvDocs = {}

----------------------------------------------------------------------------
(* loadRfps, loadSaved, fetchSavedDetail: what each does when its request  *)
(* settles.  A result r of GET /rfps is [out, hdr, arr]: the outcome, the  *)
(* X-Total-Count header and whether the body is an array.                  *)

ListResults ==
    [out : FailOutcomes, hdr : {<<>>}, arr : {TRUE}] \cup
    [out : {"ok"}, hdr : TotalHeaders, arr : BOOLEAN]

\* loadRfps from the settling of its fetch to the end of its finally
loadRfpsSettles(pg, r) ==
    /\ IF r.out = "ok"
       THEN /\ totalCount' = IF r.hdr # <<>> THEN r.hdr[1] ELSE totalCount
            /\ rfps' = IF r.arr THEN PageItems(pg) ELSE <<>>
            /\ error' = error
       ELSE /\ error' = LoadErr
            /\ UNCHANGED <<totalCount, rfps>>
    /\ loading' = FALSE

\* loadSaved from the settling of its fetch on: a failure is only logged
loadSavedSettles(out, data) ==
    saved' = IF out = "ok" THEN data ELSE saved

\* the message of the Error fetchSavedDetail catches
DetailErr(rfpId, out) ==
    CASE out = "network" -> NetErr
      [] out = "status" -> <<"GET /saved/", ToString(rfpId), " ", "500">>
      [] OTHER -> <<"Unexpected token in JSON">>

\* e?.message || fallback
CatchMessage(m, fallback) == IF m # <<>> THEN m ELSE fallback

\* fetchSavedDetail from the settling of its fetch to the end of its finally;
\* docs is the documents list of the body of a 2xx response
fetchSavedDetailSettles(rfpId, out, docs) ==
    /\ IF out = "ok"
       THEN /\ detail' = rfpId
            /\ detailDocs' = docs
            /\ noteText' = <<>>
            /\ error' = error
       ELSE /\ UNCHANGED <<detail, detailDocs, noteText>>
            /\ error' = CatchMessage(DetailErr(rfpId, out), DetailFallback)
    /\ detailLoading' = FALSE

----------------------------------------------------------------------------
(* The two effects on [refreshing] *)

\* the cleanup of the poll effect: if (t) clearTimeout(t).  A loop whose
\* timer is pending dies; a loop whose fetch is in flight holds no pending
\* timer (t is null or the id of a timer that already fired) and goes on.
CleanupPoll(ps) ==
    LET keep == SelectSeq(ps, LAMBDA p : ~(p.live /\ p.t = "pending"))
    IN  [i \in 1..Len(keep) |-> [keep[i] EXCEPT !.live = FALSE]]

\* the poll effect body when refreshing is true: tick() at once
StartPoll(ps) == Append(ps, [t |-> "none", live |-> TRUE])

\* setRefreshing(false) in refreshRfps' finally, and the effects the change
\* of refreshing runs: the poll cleanup and the progress reset
SetRefreshingFalse ==
    /\ refreshing' = FALSE
    /\ pollers' = IF refreshing THEN CleanupPoll(pollers) ELSE pollers
    /\ progress' = IF refreshing THEN ZeroProgress ELSE progress

----------------------------------------------------------------------------
(* refreshRfps *)

\* RefreshEnabled with the disabled attribute left off the button
RefreshAlwaysEnabled == TRUE

\* the "Refresh RFPs" button: disabled={refreshing}
RefreshEnabled == ~refreshing

\* RefreshMsg without the line that appends body.error
RefreshMsgWithoutError(body) ==
    IF body.parsed THEN body.message ELSE <<>>

\* msg as built from the body of POST /refresh
RefreshMsg(body) ==
    LET m == IF body.parsed THEN body.message ELSE <<>>
    IN  IF body.parsed /\ body.ok = FALSE /\ body.error # <<>>
        THEN m \o <<" (">> \o body.error \o <<")">>
        ELSE m

\* the message of the Error thrown on a non-2xx status
RefreshThrown(body) ==
    IF RefreshMsg(body) # <<>> THEN RefreshMsg(body)
    ELSE <<"POST /refresh ", "500">>

\* the click: refreshRfps up to its first await, and the poll effect
StartRefresh ==
    /\ RefreshEnabled
    /\ refreshCount < MaxRefreshes
    /\ refreshCount' = refreshCount + 1
    /\ refreshing' = TRUE
    /\ error' = <<>>
    /\ refreshCalls' = Append(refreshCalls, [pc |-> "post", det |-> detail])
    /\ pollers' = IF refreshing THEN pollers ELSE StartPoll(pollers)
    /\ failed' = ""
    /\ UNCHANGED <<rfps, saved, detail, detailLoading, loading, page, totalCount,
                   progress, listReqs, savedReqs, detailReqs>>
    /\ UNCHANGED xvars

\* RefreshPostFailed with setRefreshing(false) in the try block instead of
\* in a finally: the catch path leaves refreshing as it is
RefreshPostFailedNoFinally(i, out, body) ==
    /\ refreshCalls[i].pc = "post"
    /\ error' = CatchMessage(IF out = "network" THEN NetErr ELSE RefreshThrown(body),
                             RefreshFallback)
    /\ refreshCalls' = Remove(refreshCalls, i)
    /\ failed' = "POST /refresh"
    /\ UNCHANGED <<rfps, saved, detail, detailLoading, loading, page, totalCount,
                   listReqs, savedReqs, detailReqs, refreshCount, refreshing,
                   pollers, progress>>
    /\ UNCHANGED xvars

\* POST /refresh rejects (out = "network") or answers with a non-2xx status
\* and the given body: catch, then finally
RefreshPostFailed(i, out, body) ==
    /\ refreshCalls[i].pc = "post"
    /\ error' = CatchMessage(IF out = "network" THEN NetErr ELSE RefreshThrown(body),
                             RefreshFallback)
    /\ refreshCalls' = Remove(refreshCalls, i)
    /\ SetRefreshingFalse
    /\ failed' = "POST /refresh"
    /\ UNCHANGED <<rfps, saved, detail, detailLoading, loading, page, totalCount,
                   listReqs, savedReqs, detailReqs, refreshCount>>
    /\ UNCHANGED xvars

\* POST /refresh answers 2xx: setPage(0), loadRfps(0) up to its fetch, and
\* the effect on [page], which calls loadRfps(0) again when page changed
RefreshPostOk(i) ==
    /\ refreshCalls[i].pc = "post"
    /\ page' = 0
    /\ loading' = TRUE
    /\ error' = <<>>
    /\ refreshCalls' = [refreshCalls EXCEPT ![i].pc = "list"]
    /\ listReqs' = IF page # 0
                   THEN Append(listReqs, [pg |-> 0, by |-> "refresh"])
                   ELSE listReqs
    /\ failed' = ""
    /\ UNCHANGED <<rfps, saved, detail, detailLoading, refreshing, totalCount,
                   progress, savedReqs, detailReqs, pollers, refreshCount>>
    /\ UNCHANGED xvars

\* await loadRfps(0) settles; loadSaved() is called
RefreshListDone(i, r) ==
    /\ refreshCalls[i].pc = "list"
    /\ loadRfpsSettles(0, r)
    /\ refreshCalls' = [refreshCalls EXCEPT ![i].pc = "saved"]
    /\ failed' = FailedBy("refresh: GET /rfps", r.out = "ok")
    /\ UNCHANGED <<saved, detail, detailLoading, refreshing, page, progress,
                   listReqs, savedReqs, detailReqs, pollers, refreshCount>>
    /\ UNCHANGED xvars

\* RefreshSavedDone with a loadSaved that rethrows: a failure reaches the
\* catch of refreshRfps, which sets the error and skips the detail refetch
RefreshSavedDoneRethrows(i, out, data) ==
    /\ refreshCalls[i].pc = "saved"
    /\ loadSavedSettles(out, data)
    /\ IF out = "ok" /\ refreshCalls[i].det # NoDetail
       THEN /\ detailLoading' = TRUE
            /\ refreshCalls' = [refreshCalls EXCEPT ![i].pc = "detail"]
            /\ UNCHANGED <<refreshing, pollers, progress>>
       ELSE /\ refreshCalls' = Remove(refreshCalls, i)
            /\ SetRefreshingFalse
            /\ UNCHANGED detailLoading
    /\ error' = IF out = "ok" THEN error ELSE <<"GET /saved ", "500">>
    /\ failed' = FailedBy("refresh: GET /saved", out = "ok")
    /\ UNCHANGED <<rfps, detail, loading, page, totalCount, listReqs,
                   savedReqs, detailReqs, refreshCount>>
    /\ UNCHANGED xvars

\* await loadSaved() settles; with a detail in the closure fetchSavedDetail
\* is called, else the finally runs
RefreshSavedDone(i, out, data) ==
    /\ refreshCalls[i].pc = "saved"
    /\ loadSavedSettles(out, data)
    /\ IF refreshCalls[i].det # NoDetail
       THEN /\ detailLoading' = TRUE
            /\ refreshCalls' = [refreshCalls EXCEPT ![i].pc = "detail"]
            /\ UNCHANGED <<refreshing, pollers, progress>>
       ELSE /\ refreshCalls' = Remove(refreshCalls, i)
            /\ SetRefreshingFalse
            /\ UNCHANGED detailLoading
    /\ failed' = FailedBy("refresh: GET /saved", out = "ok")
    /\ UNCHANGED <<rfps, detail, loading, error, page, totalCount, listReqs,
                   savedReqs, detailReqs, refreshCount>>
    /\ UNCHANGED xvars

\* await fetchSavedDetail(detail.rfp_id) settles; the finally runs
RefreshDetailDone(i, out) ==
    /\ refreshCalls[i].pc = "detail"
    /\ fetchSavedDetailSettles(refreshCalls[i].det, out, srvDocs)
    /\ refreshCalls' = Remove(refreshCalls, i)
    /\ SetRefreshingFalse
    /\ failed' = FailedBy("refresh: GET /saved/id", out = "ok")
    /\ UNCHANGED <<rfps, saved, loading, page, totalCount, listReqs, savedReqs,
                   detailReqs, refreshCount>>
    /\ UNCHANGED xvarsButDetail

----------------------------------------------------------------------------
(* Requests made outside refreshRfps *)

ListDone(i, r) ==
    /\ loadRfpsSettles(listReqs[i].pg, r)
    /\ listReqs' = Remove(listReqs, i)
    /\ failed' = FailedBy("GET /rfps", r.out = "ok")
    /\ UNCHANGED <<saved, detail, detailLoading, refreshing, page, progress,
                   refreshCalls, savedReqs, detailReqs, pollers, refreshCount>>
    /\ UNCHANGED xvars

SavedDone(out, data) ==
    /\ savedReqs > 0
    /\ loadSavedSettles(out, data)
    /\ savedReqs' = savedReqs - 1
    /\ failed' = FailedBy("GET /saved", out = "ok")
    /\ UNCHANGED <<rfps, detail, detailLoading, loading, refreshing, error, page,
                   totalCount, progress, refreshCalls, listReqs, detailReqs,
                   pollers, refreshCount>>
    /\ UNCHANGED xvars

\* "View Details" on a saved card: fetchSavedDetail up to its fetch
openSavedDetail(rfpId) ==
    /\ rfpId \in saved
    /\ Len(detailReqs) < MaxDetailReqs
    /\ detailLoading' = TRUE
    /\ detailReqs' = Append(detailReqs, [id |-> rfpId, seen |-> {srvDocs}])
    /\ failed' = ""
    /\ UNCHANGED <<rfps, saved, detail, loading, refreshing, error, page,
                   totalCount, progress, refreshCalls, listReqs, savedReqs,
                   pollers, refreshCount>>
    /\ UNCHANGED xvars

\* a fetchSavedDetail settles; the body of a 2xx response carries the
\* documents the backend held at some moment since the request was issued
DetailDone(i, out, docs) ==
    /\ docs \in detailReqs[i].seen
    /\ fetchSavedDetailSettles(detailReqs[i].id, out, docs)
    /\ detailReqs' = Remove(detailReqs, i)
    /\ failed' = FailedBy("GET /saved/id", out = "ok")
    /\ UNCHANGED <<rfps, saved, loading, refreshing, page, totalCount, progress,
                   refreshCalls, listReqs, savedReqs, pollers, refreshCount>>
    /\ UNCHANGED xvarsButDetail

closeDetail ==
    /\ detail # NoDetail
    /\ detail' = NoDetail
    /\ detailDocs' = {}
    /\ noteText' = <<>>
    /\ failed' = ""
    /\ UNCHANGED <<rfps, saved, detailLoading, loading, refreshing, error, page,
                   totalCount, progress, refreshCalls, listReqs, savedReqs,
                   detailReqs, pollers, refreshCount>>
    /\ UNCHANGED xvarsButDetail

----------------------------------------------------------------------------
(* Pagination and "Reload List" *)

goPrev(p) == Max(0, p - 1)
\* goNext without the test against totalPages
goNextUnguarded(p) == p + 1
goNext(p) == IF p + 1 < totalPages THEN p + 1 ELSE p

\* setPage(np) from a click, and the effect on [page]: loadRfps(np) up to
\* its fetch when the page changed
SetPageFromClick(np) ==
    /\ Len(listReqs) < MaxListReqs
    /\ page' = np
    /\ IF np # page
       THEN /\ loading' = TRUE
            /\ error' = <<>>
            /\ listReqs' = Append(listReqs, [pg |-> np, by |-> "user"])
       ELSE UNCHANGED <<loading, error, listReqs>>
    /\ failed' = ""
    /\ UNCHANGED <<rfps, saved, detail, detailLoading, refreshing, totalCount,
                   progress, refreshCalls, savedReqs, detailReqs, pollers,
                   refreshCount>>
    /\ UNCHANGED xvars

\* the Previous button
Previous ==
    /\ ~(page = 0 \/ loading \/ refreshing)
    /\ SetPageFromClick(goPrev(page))

\* the Next button
NextPage ==
    /\ ~(loading \/ refreshing \/ page + 1 >= totalPages)
    /\ SetPageFromClick(goNext(page))

\* the Reload List button: setPage(0); loadRfps(0); and the effect on [page]
ReloadList ==
    /\ ~(loading \/ refreshing)
    /\ Len(listReqs) < MaxListReqs
    /\ page' = 0
    /\ loading' = TRUE
    /\ error' = <<>>
    /\ listReqs' = listReqs \o <<[pg |-> 0, by |-> "user"]>> \o
                   (IF page # 0 THEN <<[pg |-> 0, by |-> "user"]>> ELSE <<>>)
    /\ failed' = ""
    /\ UNCHANGED <<rfps, saved, detail, detailLoading, refreshing, totalCount,
                   progress, refreshCalls, savedReqs, detailReqs, pollers,
                   refreshCount>>
    /\ UNCHANGED xvars

----------------------------------------------------------------------------
(* The tick loop of the poll effect *)

\* TickFetchDone with a catch that falls back to the zero value
TickFetchDoneResets(i, out, j) ==
    /\ pollers[i].t = "none"
    /\ progress' = IF out = "ok" THEN j ELSE ZeroProgress
    /\ pollers' = [pollers EXCEPT ![i].t = "pending"]
    /\ failed' = FailedBy("GET /progress", out = "ok")
    /\ UNCHANGED <<rfps, saved, detail, detailLoading, loading, refreshing, error,
                   page, totalCount, refreshCalls, listReqs, savedReqs,
                   detailReqs, refreshCount>>
    /\ UNCHANGED xvars

\* TickFetchDone with a catch that returns before setTimeout
TickFetchDoneStopsOnFailure(i, out, j) ==
    /\ pollers[i].t = "none"
    /\ progress' = IF out = "ok" THEN j ELSE progress
    /\ pollers' = [pollers EXCEPT ![i].t = IF out = "ok" THEN "pending" ELSE "stopped"]
    /\ failed' = FailedBy("GET /progress", out = "ok")
    /\ UNCHANGED <<rfps, saved, detail, detailLoading, loading, refreshing, error,
                   page, totalCount, refreshCalls, listReqs, savedReqs,
                   detailReqs, refreshCount>>
    /\ UNCHANGED xvars

\* the fetch of a tick settles: on a 2xx response with a parseable body j,
\* setProgress(j || zero); anything else is swallowed; then setTimeout
TickFetchDone(i, out, j) ==
    /\ pollers[i].t = "none"
    /\ progress' = IF out = "ok" THEN j ELSE progress
    /\ pollers' = [pollers EXCEPT ![i].t = "pending"]
    /\ failed' = FailedBy("GET /progress", out = "ok")
    /\ UNCHANGED <<rfps, saved, detail, detailLoading, loading, refreshing, error,
                   page, totalCount, refreshCalls, listReqs, savedReqs,
                   detailReqs, refreshCount>>
    /\ UNCHANGED xvars

\* the timer of a loop fires: tick() issues the next GET /progress
TickTimer(i) ==
    /\ pollers[i].t = "pending"
    /\ pollers' = [pollers EXCEPT ![i].t = "none"]
    /\ failed' = ""
    /\ UNCHANGED <<rfps, saved, detail, detailLoading, loading, refreshing, error,
                   page, totalCount, progress, refreshCalls, listReqs, savedReqs,
                   detailReqs, refreshCount>>
    /\ UNCHANGED xvars

----------------------------------------------------------------------------

\* the ways POST /refresh can fail: the fetch rejects, or a non-2xx status
\* with any body
PostFailures ==
    {[out |-> "network", body |-> NoBody]} \cup [out : {"status"}, body : Bodies]

\* the ways GET /progress can settle
PollResults ==
    [out : {"ok"}, j : ProgressBodies] \cup [out : FailOutcomes, j : {ZeroProgress}]

\* the ways GET /saved can settle
SavedResults ==
    [out : {"ok"}, data : SUBSET RfpIds] \cup [out : FailOutcomes, data : {{}}]

Next ==
    \/ StartRefresh
    \/ \E i \in 1..Len(refreshCalls), f \in PostFailures :
         RefreshPostFailed(i, f.out, f.body)
    \/ \E i \in 1..Len(refreshCalls) : RefreshPostOk(i)
    \/ \E i \in 1..Len(refreshCalls), r \in ListResults : RefreshListDone(i, r)
    \/ \E i \in 1..Len(refreshCalls), r \in SavedResults :
         RefreshSavedDone(i, r.out, r.data)
    \/ \E i \in 1..Len(refreshCalls), out \in Outcomes : RefreshDetailDone(i, out)
    \/ \E i \in 1..Len(listReqs), r \in ListResults : ListDone(i, r)
    \/ \E r \in SavedResults : SavedDone(r.out, r.data)
    \/ \E rfpId \in RfpIds : openSavedDetail(rfpId)
    \/ \E i \in 1..Len(detailReqs), out \in Outcomes, docs \in SUBSET Files :
         DetailDone(i, out, docs)
    \/ closeDetail
    \/ Previous
    \/ NextPage
    \/ ReloadList
    \/ \E i \in 1..Len(pollers), r \in PollResults : TickFetchDone(i, r.out, r.j)
    \/ \E i \in 1..Len(pollers) : TickTimer(i)

Spec == Init /\ [][Next]_vars

----------------------------------------------------------------------------
(* The page once the loads of the mount have settled *)

\* the cells of vars other than xvars after GET /rfps?offset=0 answered with
\* the list items and X-Total-Count tc, and GET /saved with the empty list
MountedCore(tc, items) ==
    /\ rfps = items
    /\ saved = {}
    /\ detail = NoDetail
    /\ detailLoading = FALSE
    /\ loading = FALSE
    /\ refreshing = FALSE
    /\ error = <<>>
    /\ page = 0
    /\ totalCount = tc
    /\ progress = ZeroProgress
    /\ refreshCalls = <<>>
    /\ listReqs = <<>>
    /\ savedReqs = 0
    /\ detailReqs = <<>>
    /\ pollers = <<>>
    /\ refreshCount = 0
    /\ failed = ""

\* the cells of xvars as useState initialises them, with an empty backend
XIdle ==
    /\ q = <<>>
    /\ clock = 0
    /\ tzOffset = 0
    /\ uploading = FALSE
    /\ noteText = <<>>
    /\ savingId = NoSaving
    /\ detailDocs = {}
    /\ calls = <<>>
    /\ srvSaved = {}
    /\ srvDocs = {}

----------------------------------------------------------------------------
(* The progress percentage *)

MaxTotal == 12
MaxDone == 14

\* Math.round of the non-negative rational n / d
Round(n, d) == (2 * n + d) \div (2 * d)

\* percent with the guard on done in place of total (x / 0 is Infinity)
percentGuardsDone ==
    IF progress.done <= 0 THEN 0
    ELSE IF progress.total = 0 THEN 100
    ELSE Min(100, Max(0, Round(progress.done * 100, progress.total)))

\* percent of App: 0 when total is falsy or not positive, else
\* Math.min(100, Math.max(0, Math.round((done / total) * 100)))
percent ==
    IF progress.total <= 0 THEN 0
    ELSE Min(100, Max(0, Round(progress.done * 100, progress.total)))

\* p of ProgressBar: Math.max(0, Math.min(100, Math.round(percent))), for
\* an integer percent (Math.round leaves an integer as it is)
ProgressBar(pc) == Max(0, Min(100, pc))

\* the bodies GET /progress answers with while a refresh runs
PercentBodies == [total : 0..MaxTotal, done : 0..MaxDone, stage : {"ingest"}]

PercentInit == MountedCore(0, PageItems(0)) /\ XIdle

PercentNext ==
    \/ StartRefresh
    \/ \E i \in 1..Len(pollers), j \in PercentBodies : TickFetchDone(i, "ok", j)
    \/ \E i \in 1..Len(pollers) : TickTimer(i)

PercentSpec == PercentInit /\ [][PercentNext]_vars

----------------------------------------------------------------------------
(* Pagination over a list whose total stays as the mount found it *)

MaxTotalCount == 250

\* onClick={goNext} and onClick={goPrev}, whether or not the button that
\* carries the handler is disabled
goNextCalled == SetPageFromClick(goNext(page))
goPrevCalled == SetPageFromClick(goPrev(page))

\* the ways GET /rfps settles that leave totalCount alone: a failure, or a
\* response without X-Total-Count
SteadyListResults == {r \in ListResults : r.hdr = <<>>}

PageInit == (\E tc \in 0..MaxTotalCount : MountedCore(tc, PageItems(0))) /\ XIdle

PageNext ==
    \/ goNextCalled
    \/ goPrevCalled
    \/ \E i \in 1..Len(listReqs), r \in SteadyListResults : ListDone(i, r)

PageSpec == PageInit /\ [][PageNext]_vars

----------------------------------------------------------------------------
(* The filtered view.  A string is a sequence of characters, an instant is a
   number of hours since the epoch, a day is a number of days since the
   epoch, and a due_date is a record [kind, day, hour]:
     "none"   no due_date (null, undefined or the empty string)
     "bad"    a string new Date() cannot parse
     "date"   a date-only ISO string of that day (YYYY-MM-DD)
     "local"  a date-time string without a zone (YYYY-MM-DDTHH:00)        *)

MaxItems == 2
MaxDay == 2
MaxClock == 47

NoDue == [kind |-> "none", day |-> 0, hour |-> 0]
BadDue == [kind |-> "bad", day |-> 0, hour |-> 0]

\* String.prototype.toLowerCase over the characters in use
LowerChar(c) == IF c = "A" THEN "a" ELSE IF c = "B" THEN "b" ELSE c
toLowerCase(s) == [i \in 1..Len(s) |-> LowerChar(s[i])]

\* String.prototype.trim
RECURSIVE trimStart(_)
trimStart(s) == IF s # <<>> /\ Head(s) = " " THEN trimStart(Tail(s)) ELSE s
RECURSIVE trimEnd(_)
trimEnd(s) ==
    IF s # <<>> /\ s[Len(s)] = " " THEN trimEnd(SubSeq(s, 1, Len(s) - 1)) ELSE s
trim(s) == trimEnd(trimStart(s))

\* new Date(r.due_date).valueOf() for a due_date that parses: a date-only
\* string is midnight UTC of its day, a date-time string without a zone is
\* that local time
parsed(due) ==
    IF due.kind = "date" THEN due.day * 24
    ELSE due.day * 24 + due.hour - tzOffset

\* the local calendar day of the instant new Date() reads
localDay == (clock + tzOffset) \div 24

\* today after setHours(0, 0, 0, 0): local midnight of the local day
today == localDay * 24 - tzOffset

\* the predicate of rfps.filter that gives active
isActive(r) ==
    \/ r.due_date.kind \in {"none", "bad"}
    \/ parsed(r.due_date) >= today

\* hay of an item: the three fields, a missing one as "", joined by spaces
hay(r) == toLowerCase(r.title \o <<" ">> \o r.summary \o <<" ">> \o r.agency)

\* filterItems that loses the first match of a query
filterItemsDropsFirst(items, text) ==
    LET term == toLowerCase(trim(text))
        active == SelectSeq(items, isActive)
        found == SelectSeq(active, LAMBDA r : Contains(hay(r), term))
    IN  IF term = <<>> THEN active
        ELSE IF found = <<>> THEN found ELSE Tail(found)

\* the body of the useMemo that gives filtered, for the list items and the
\* query text
filterItems(items, text) ==
    LET term == toLowerCase(trim(text))
        active == SelectSeq(items, isActive)
    IN  IF term = <<>> THEN active
        ELSE SelectSeq(active, LAMBDA r : Contains(hay(r), term))

filtered == filterItems(rfps, q)

\* the sequences over S of length up to n
SeqsUpTo(S, n) == UNION {[1..k -> S] : k \in 0..n}

\* loadRfps has settled with the array data: setRfps(data)
LoadItems(data) ==
    /\ rfps' = data
    /\ failed' = ""
    /\ UNCHANGED <<saved, detail, detailLoading, loading, refreshing, error, page,
                   totalCount, progress, refreshCalls, listReqs, savedReqs,
                   detailReqs, pollers, refreshCount>>
    /\ UNCHANGED xvars

\* an hour passes
ClockTick ==
    /\ clock < MaxClock
    /\ clock' = clock + 1
    /\ failed' = ""
    /\ UNCHANGED <<rfps, saved, detail, detailLoading, loading, refreshing, error,
                   page, totalCount, progress, refreshCalls, listReqs, savedReqs,
                   detailReqs, pollers, refreshCount>>
    /\ UNCHANGED <<q, tzOffset, uploading, noteText, savingId, detailDocs, calls,
                   srvSaved, srvDocs>>

----------------------------------------------------------------------------
(* The active-items filter over due dates, clocks and time zones *)

\* local time minus UTC in hours: New York (EST), UTC, Tokyo
TzOffsets == {-5, 0, 9}

DueDates ==
    {NoDue, BadDue} \cup [kind : {"date"}, day : 0..MaxDay, hour : {0}]
                   \cup [kind : {"local"}, day : 0..MaxDay, hour : {0, 23}]

DueItems == [title : {<<"a">>}, summary : {<<>>}, agency : {<<>>}, due_date : DueDates]

DueInit ==
    /\ MountedCore(0, <<>>)
    /\ q = <<>>
    /\ clock = 24
    /\ tzOffset \in TzOffsets
    /\ uploading = FALSE
    /\ noteText = <<>>
    /\ savingId = NoSaving
    /\ detailDocs = {}
    /\ calls = <<>>
    /\ srvSaved = {}
    /\ srvDocs = {}

DueNext ==
    \/ \E data \in SeqsUpTo(DueItems, MaxItems) : LoadItems(data)
    \/ ClockTick

DueSpec == DueInit /\ [][DueNext]_vars

----------------------------------------------------------------------------
(* The text filter over item lists and queries, at noon UTC of day 1 *)

MaxQLen == 3

QueryChars == {"a", "B", " "}

\* an item is due the day before (inactive) or has no due_date (active)
FilterItems ==
    [title : {<<>>, <<"a">>, <<"B">>}, summary : {<<>>, <<"a">>, <<"B">>},
     agency : {<<>>, <<"a">>},
     due_date : {NoDue, [kind |-> "date", day |-> 0, hour |-> 0]}]

\* onChange of the filter input after a key is typed: setQ(e.target.value)
TypeChar(c) ==
    /\ Len(q) < MaxQLen
    /\ q' = Append(q, c)
    /\ failed' = ""
    /\ UNCHANGED <<rfps, saved, detail, detailLoading, loading, refreshing, error,
                   page, totalCount, progress, refreshCalls, listReqs, savedReqs,
                   detailReqs, pollers, refreshCount>>
    /\ UNCHANGED <<clock, tzOffset, uploading, noteText, savingId, detailDocs,
                   calls, srvSaved, srvDocs>>

\* onChange of the filter input after Backspace
Backspace ==
    /\ q # <<>>
    /\ q' = SubSeq(q, 1, Len(q) - 1)
    /\ failed' = ""
    /\ UNCHANGED <<rfps, saved, detail, detailLoading, loading, refreshing, error,
                   page, totalCount, progress, refreshCalls, listReqs, savedReqs,
                   detailReqs, pollers, refreshCount>>
    /\ UNCHANGED <<clock, tzOffset, uploading, noteText, savingId, detailDocs,
                   calls, srvSaved, srvDocs>>

FilterInit ==
    /\ \E items \in SeqsUpTo(FilterItems, MaxItems) : MountedCore(0, items)
    /\ q = <<>>
    /\ clock = 36
    /\ tzOffset = 0
    /\ uploading = FALSE
    /\ noteText = <<>>
    /\ savingId = NoSaving
    /\ detailDocs = {}
    /\ calls = <<>>
    /\ srvSaved = {}
    /\ srvDocs = {}

FilterNext ==
    \/ \E c \in QueryChars : TypeChar(c)
    \/ Backspace

FilterSpec == FilterInit /\ [][FilterNext]_vars

----------------------------------------------------------------------------
(* The saved panel: save, remove, upload, add note, and the backend behind
   them.  An entry of calls is an invocation of one of the four handlers:
     fn    "save", "remove", "upload" or "note"
     id    the rfp_id it is about
     pc    "mutate" while its POST or DELETE is in flight, "refetch" while
           the loadSaved() it awaits is in flight
     resp  the backend's answer to the POST or DELETE: "none" until the
           backend has handled it, then "ok" (2xx) or "status" (non-2xx)
     docs  the documents list in the body of an "ok" answer
     file  the name of the file of an upload, "" otherwise                 *)

MaxCalls == 2

NoteTexts == {<<" ">>, <<"o", "k">>}

\* what the saved-panel handlers and the backend leave alone
listvars == <<rfps, loading, refreshing, page, totalCount, progress,
              refreshCalls, listReqs, savedReqs, pollers, refreshCount>>
envvars == <<q, clock, tzOffset>>

NewCall(fn, rfpId, file) ==
    [fn |-> fn, id |-> rfpId, pc |-> "mutate", resp |-> "none", docs |-> {},
     file |-> file]

\* the message of the Error a handler catches when its request fails
HandlerErr(prefix, out) ==
    CASE out = "network" -> NetErr
      [] out = "status" -> <<prefix, "500">>
      [] OTHER -> <<"Unexpected token in JSON">>

\* the ways the POST or DELETE of a call can settle at the client: the
\* fetch rejects (before or after the backend handled the request), or the
\* backend's answer arrives, a 2xx one with a body that may not parse
CallOutcomes(c) ==
    {"network"} \cup (IF c.resp = "status" THEN {"status"} ELSE {})
                \cup (IF c.resp = "ok" THEN {"ok", "parse"} ELSE {})

\* onSave of a card: handleSave up to its fetch
handleSave(rfpId) ==
    /\ Len(calls) < MaxCalls
    /\ rfpId \in Range(rfps)
    /\ savingId' = rfpId
    /\ calls' = Append(calls, NewCall("save", rfpId, ""))
    /\ failed' = ""
    /\ UNCHANGED <<saved, detail, detailLoading, error, detailReqs, uploading,
                   noteText, detailDocs, srvSaved, srvDocs>>
    /\ UNCHANGED <<listvars, envvars>>

\* handleSave with no loadSaved() after the POST
handleSaveSettlesNoRefetch(i, out) ==
    /\ calls[i].fn = "save" /\ calls[i].pc = "mutate"
    /\ out \in CallOutcomes(calls[i])
    /\ error' = IF out \in {"ok", "parse"} THEN error
                ELSE CatchMessage(HandlerErr("Save failed ", out), <<"Could not save RFP.">>)
    /\ savingId' = NoSaving
    /\ calls' = Remove(calls, i)
    /\ failed' = FailedBy("POST /rfps/id/save", out \in {"ok", "parse"})
    /\ UNCHANGED <<saved, detail, detailLoading, detailReqs, uploading, noteText,
                   detailDocs, srvSaved, srvDocs>>
    /\ UNCHANGED <<listvars, envvars>>

\* the POST of handleSave settles: a 2xx response (its body is not read)
\* leads to loadSaved(), anything else to setError and the finally
handleSaveSettles(i, out) ==
    /\ calls[i].fn = "save" /\ calls[i].pc = "mutate"
    /\ out \in CallOutcomes(calls[i])
    /\ IF out \in {"ok", "parse"}
       THEN /\ calls' = [calls EXCEPT ![i].pc = "refetch"]
            /\ UNCHANGED <<error, savingId>>
       ELSE /\ error' = CatchMessage(HandlerErr("Save failed ", out),
                                     <<"Could not save RFP.">>)
            /\ savingId' = NoSaving
            /\ calls' = Remove(calls, i)
    /\ failed' = FailedBy("POST /rfps/id/save", out \in {"ok", "parse"})
    /\ UNCHANGED <<saved, detail, detailLoading, detailReqs, uploading, noteText,
                   detailDocs, srvSaved, srvDocs>>
    /\ UNCHANGED <<listvars, envvars>>

\* the Remove button of a saved card: handleRemoveSaved up to its fetch
handleRemoveSaved(rfpId) ==
    /\ Len(calls) < MaxCalls
    /\ rfpId \in saved
    /\ calls' = Append(calls, NewCall("remove", rfpId, ""))
    /\ failed' = ""
    /\ UNCHANGED <<saved, detail, detailLoading, error, detailReqs, uploading,
                   noteText, savingId, detailDocs, srvSaved, srvDocs>>
    /\ UNCHANGED <<listvars, envvars>>

\* the DELETE of handleRemoveSaved settles: res.ok is not looked at, so any
\* response leads to loadSaved(); a rejected fetch is logged
handleRemoveSettles(i, out) ==
    /\ calls[i].fn = "remove" /\ calls[i].pc = "mutate"
    /\ out \in CallOutcomes(calls[i])
    /\ calls' = IF out = "network" THEN Remove(calls, i)
                ELSE [calls EXCEPT ![i].pc = "refetch"]
    /\ failed' = FailedBy("DELETE /saved/id", out \in {"ok", "parse"})
    /\ UNCHANGED <<saved, detail, detailLoading, error, detailReqs, uploading,
                   noteText, savingId, detailDocs, srvSaved, srvDocs>>
    /\ UNCHANGED <<listvars, envvars>>

\* onChange of the file input of the detail panel with a file chosen:
\* handleUploadDocument(detail.rfp_id, file) up to its fetch
handleUploadDocument(rfpId, file) ==
    /\ Len(calls) < MaxCalls
    /\ detail # NoDetail /\ rfpId = detail
    /\ ~uploading
    /\ uploading' = TRUE
    /\ calls' = Append(calls, NewCall("upload", rfpId, file))
    /\ failed' = ""
    /\ UNCHANGED <<saved, detail, detailLoading, error, detailReqs, noteText,
                   savingId, detailDocs, srvSaved, srvDocs>>
    /\ UNCHANGED <<listvars, envvars>>

\* handleUploadDocument that does not setDetail(data)
handleUploadSettlesKeepsDetail(i, out) ==
    /\ calls[i].fn = "upload" /\ calls[i].pc = "mutate"
    /\ out \in CallOutcomes(calls[i])
    /\ IF out = "ok"
       THEN /\ calls' = [calls EXCEPT ![i].pc = "refetch"]
            /\ UNCHANGED <<error, uploading>>
       ELSE /\ error' = CatchMessage(HandlerErr("Upload failed ", out),
                                     <<"Upload failed.">>)
            /\ uploading' = FALSE
            /\ calls' = Remove(calls, i)
    /\ failed' = FailedBy("POST /saved/id/upload", out = "ok")
    /\ UNCHANGED <<saved, detail, detailDocs, detailLoading, detailReqs, noteText,
                   savingId, srvSaved, srvDocs>>
    /\ UNCHANGED <<listvars, envvars>>

\* the POST of handleUploadDocument settles: a 2xx response with a body
\* that parses leads to setDetail(data) and loadSaved(), anything else to
\* setError and the finally
handleUploadSettles(i, out) ==
    /\ calls[i].fn = "upload" /\ calls[i].pc = "mutate"
    /\ out \in CallOutcomes(calls[i])
    /\ IF out = "ok"
       THEN /\ detail' = calls[i].id
            /\ detailDocs' = calls[i].docs
            /\ calls' = [calls EXCEPT ![i].pc = "refetch"]
            /\ UNCHANGED <<error, uploading>>
       ELSE /\ error' = CatchMessage(HandlerErr("Upload failed ", out),
                                     <<"Upload failed.">>)
            /\ uploading' = FALSE
            /\ calls' = Remove(calls, i)
            /\ UNCHANGED <<detail, detailDocs>>
    /\ failed' = FailedBy("POST /saved/id/upload", out = "ok")
    /\ UNCHANGED <<saved, detailLoading, detailReqs, noteText, savingId,
                   srvSaved, srvDocs>>
    /\ UNCHANGED <<listvars, envvars>>

\* onChange of the note textarea of the detail panel: setNoteText
TypeNote(text) ==
    /\ detail # NoDetail
    /\ noteText # text
    /\ noteText' = text
    /\ failed' = ""
    /\ UNCHANGED <<saved, detail, detailLoading, error, detailReqs, uploading,
                   savingId, detailDocs, calls, srvSaved, srvDocs>>
    /\ UNCHANGED <<listvars, envvars>>

\* the Add Note button: handleAddNote(detail.rfp_id) up to its fetch
handleAddNote(rfpId) ==
    /\ Len(calls) < MaxCalls
    /\ detail # NoDetail /\ rfpId = detail
    /\ trim(noteText) # <<>>
    /\ calls' = Append(calls, NewCall("note", rfpId, ""))
    /\ failed' = ""
    /\ UNCHANGED <<saved, detail, detailLoading, error, detailReqs, uploading,
                   noteText, savingId, detailDocs, srvSaved, srvDocs>>
    /\ UNCHANGED <<listvars, envvars>>

\* the POST of handleAddNote settles: a 2xx response with a body that
\* parses leads to setDetail(data) and setNoteText(""), anything else to
\* setError; the handler ends there
handleAddNoteSettles(i, out) ==
    /\ calls[i].fn = "note" /\ calls[i].pc = "mutate"
    /\ out \in CallOutcomes(calls[i])
    /\ IF out = "ok"
       THEN /\ detail' = calls[i].id
            /\ detailDocs' = calls[i].docs
            /\ noteText' = <<>>
            /\ error' = error
       ELSE /\ error' = CatchMessage(HandlerErr("Add note failed ", out),
                                     <<"Could not add note.">>)
            /\ UNCHANGED <<detail, detailDocs, noteText>>
    /\ calls' = Remove(calls, i)
    /\ failed' = FailedBy("POST /saved/id/notes", out = "ok")
    /\ UNCHANGED <<saved, detailLoading, detailReqs, uploading, savingId,
                   srvSaved, srvDocs>>
    /\ UNCHANGED <<listvars, envvars>>

\* the loadSaved() a handler awaits settles, and the handler's finally runs
HandlerRefetchDone(i, out, data) ==
    /\ calls[i].pc = "refetch"
    /\ loadSavedSettles(out, data)
    /\ savingId' = IF calls[i].fn = "save" THEN NoSaving ELSE savingId
    /\ uploading' = IF calls[i].fn = "upload" THEN FALSE ELSE uploading
    /\ calls' = Remove(calls, i)
    /\ failed' = FailedBy("handler: GET /saved", out = "ok")
    /\ UNCHANGED <<detail, detailLoading, error, detailReqs, noteText, detailDocs,
                   srvSaved, srvDocs>>
    /\ UNCHANGED <<listvars, envvars>>

\* the backend handles the POST or DELETE of a call.  With ok it applies the
\* request: save stores the item, remove destroys it with its documents,
\* upload adds the file to the documents of a stored item, and upload and
\* add-note answer with the detail of the item.  Otherwise it answers with
\* a non-2xx status and changes nothing.
BackendHandles(i, ok) ==
    /\ calls[i].pc = "mutate" /\ calls[i].resp = "none"
    /\ ok => (calls[i].fn \in {"upload", "note"} => calls[i].id \in srvSaved)
    /\ srvSaved' = IF ~ok THEN srvSaved
                   ELSE IF calls[i].fn = "save" THEN srvSaved \cup {calls[i].id}
                   ELSE IF calls[i].fn = "remove" THEN srvSaved \ {calls[i].id}
                   ELSE srvSaved
    /\ srvDocs' = IF ~ok THEN srvDocs
                  ELSE IF calls[i].fn = "remove" THEN {}
                  ELSE IF calls[i].fn = "upload" THEN srvDocs \cup {calls[i].file}
                  ELSE srvDocs
    /\ calls' = [calls EXCEPT ![i].resp = IF ok THEN "ok" ELSE "status",
                              ![i].docs = IF ok /\ calls[i].fn \in {"upload", "note"}
                                          THEN srvDocs' ELSE {}]
    /\ detailReqs' = [k \in 1..Len(detailReqs) |->
                        [detailReqs[k] EXCEPT !.seen = @ \cup {srvDocs'}]]
    /\ failed' = ""
    /\ UNCHANGED <<saved, detail, detailLoading, error, uploading, noteText,
                   savingId, detailDocs>>
    /\ UNCHANGED <<listvars, envvars>>

SavedInit == MountedCore(0, PageItems(0)) /\ XIdle

SavedNext ==
    \/ \E rfpId \in RfpIds : handleSave(rfpId)
    \/ \E i \in 1..Len(calls), out \in Outcomes : handleSaveSettles(i, out)
    \/ \E rfpId \in RfpIds : handleRemoveSaved(rfpId)
    \/ \E i \in 1..Len(calls), out \in Outcomes : handleRemoveSettles(i, out)
    \/ \E rfpId \in RfpIds, file \in Files : handleUploadDocument(rfpId, file)
    \/ \E i \in 1..Len(calls), out \in Outcomes : handleUploadSettles(i, out)
    \/ \E text \in NoteTexts : TypeNote(text)
    \/ \E rfpId \in RfpIds : handleAddNote(rfpId)
    \/ \E i \in 1..Len(calls), out \in Outcomes : handleAddNoteSettles(i, out)
    \/ \E i \in 1..Len(calls), r \in SavedResults :
         HandlerRefetchDone(i, r.out, r.data)
    \/ \E i \in 1..Len(calls), ok \in BOOLEAN : BackendHandles(i, ok)
    \/ \E rfpId \in RfpIds : openSavedDetail(rfpId)
    \/ \E i \in 1..Len(detailReqs), out \in Outcomes, docs \in SUBSET Files :
         DetailDone(i, out, docs)
    \/ closeDetail

SavedSpec == SavedInit /\ [][SavedNext]_vars

----------------------------------------------------------------------------
(* Properties *)

InFlightCalls(pcs) == {i \in 1..Len(refreshCalls) : refreshCalls[i].pc \in pcs}
TickFetches == {i \in 1..Len(pollers) : pollers[i].t = "none"}
TickTimers == {i \in 1..Len(pollers) : pollers[i].t = "pending"}

\* C1: refreshing is true exactly while a refreshRfps invocation has not
\* settled: true from the click until the invocation's finally, false once
\* it has settled (whatever its outcome) and until the next click.
C1_RefreshingIffUnsettled == refreshing = (refreshCalls # <<>>)

\* a refresh whose POST failed has settled and refreshing is false
C1_Witness ==
    failed = "POST /refresh" /\ refreshCalls = <<>> /\ ~refreshing /\ refreshCount > 0

\* C2: once refreshing is false no poll timer remains scheduled (and so no
\* further GET /progress is issued), also when a poll request was in flight
\* at the moment of the flip.
C2_NoTimerAfterStop == ~refreshing => TickTimers = {}

\* C3: whenever refreshing is false (the reset effect has run), progress is
\* the zero/empty value.
C3_ProgressZeroWhenIdle == ~refreshing => progress = ZeroProgress

\* C4: of the list, saved-items and detail requests a refresh causes (the
\* list request of the pagination reset included) at most one is in flight.
C4_RefetchesSequenced ==
    Cardinality(InFlightCalls({"list", "saved", "detail"}))
      + Cardinality({i \in 1..Len(listReqs) : listReqs[i].by = "refresh"}) <= 1

\* C5: when the saved-items fetch of a refresh has settled, GET /saved/{id}
\* is issued exactly when a detail panel is open at that time, and for the
\* rfp_id of the detail that is open.
C5_DetailRefetchIffOpen ==
    [][\A i \in 1..Len(refreshCalls) :
         (refreshCalls[i].pc = "saved" /\ refreshCalls' # refreshCalls) =>
           LET issued == /\ Len(refreshCalls') = Len(refreshCalls)
                         /\ refreshCalls'[i].pc = "detail"
           IN  /\ issued <=> (detail # NoDetail)
               /\ issued => refreshCalls'[i].det = detail]_vars

\* C6: no refresh is started while refreshing is true, so at most one
\* POST /refresh is in flight, and an invocation in flight is not removed
\* or restarted by a later click.
C6_OneRefreshAtATime ==
    /\ [](Cardinality(InFlightCalls({"post"})) <= 1)
    /\ [][refreshing => refreshCount' = refreshCount]_vars

\* a second refresh is in flight after the first one settled
C6_Witness ==
    refreshCount = 2 /\ InFlightCalls({"post"}) # {} /\ refreshing

\* C7: at most one GET /progress is in flight and at most one poll timer is
\* pending.
C7_PollNotReentrant ==
    Cardinality(TickFetches) <= 1 /\ Cardinality(TickTimers) <= 1

\* what C8 says of every failed POST /refresh apart from the error text:
\* an error is shown, list and saved data are as before, nothing is fetched
C8_Frame ==
    failed' = "POST /refresh" =>
        /\ error' # <<>>
        /\ UNCHANGED <<rfps, totalCount, page, saved>>
        /\ UNCHANGED <<listReqs, savedReqs, detailReqs>>
        /\ InFlightCalls({"list", "saved", "detail"})' = {}

\* C8 as stated: when POST /refresh fails, an error string is set that
\* contains the error text of the response body whenever the body carries
\* one; rfps, totalCount, page and saved are as before and no list, saved or
\* detail request is issued.
C8_AnyBodyError ==
    [][/\ C8_Frame
       /\ \A i \in 1..Len(refreshCalls), f \in PostFailures :
            (RefreshPostFailed(i, f.out, f.body) /\ f.body.error # <<>>)
              => Contains(error', f.body.error)]_vars

\* C8 amended: the error contains the body's error text when the body
\* parses, has ok equal to false and carries an error text.
C8_ErrorWhenNotOk ==
    [][/\ C8_Frame
       /\ \A i \in 1..Len(refreshCalls), f \in PostFailures :
            (/\ RefreshPostFailed(i, f.out, f.body)
             /\ f.body.parsed /\ f.body.ok = FALSE /\ f.body.error # <<>>)
              => Contains(error', f.body.error)]_vars

\* status 500 with {ok: false, error: "ingest timeout"} has been handled
C8_Witness ==
    /\ failed = "POST /refresh"
    /\ error = <<" (", "ingest timeout", ")">>
    /\ ~refreshing

\* C9: a failed saved-items fetch of the refresh chain leaves rfps,
\* totalCount and error alone and is followed by the detail refetch when the
\* invocation has a detail to refetch; a failed list fetch of the chain is
\* followed by the saved-items fetch.
C9_ChainFailuresContained ==
    [][/\ failed' = "refresh: GET /saved" =>
            /\ UNCHANGED <<rfps, totalCount, error>>
            /\ \A i \in 1..Len(refreshCalls) :
                 (refreshCalls[i].pc = "saved" /\ refreshCalls[i].det # NoDetail)
                   => /\ Len(refreshCalls') = Len(refreshCalls)
                      /\ refreshCalls'[i].pc = "detail"
       /\ failed' = "refresh: GET /rfps" =>
            \A i \in 1..Len(refreshCalls) :
                 refreshCalls[i].pc = "list"
                   => /\ Len(refreshCalls') = Len(refreshCalls)
                      /\ refreshCalls'[i].pc = "saved"]_vars

\* the saved-items fetch of a refresh failed and the detail refetch is in
\* flight, after the list refetch had succeeded
C9_Witness ==
    /\ failed = "refresh: GET /saved"
    /\ InFlightCalls({"detail"}) # {}
    /\ rfps = PageItems(0)
    /\ error = <<>>

\* C10: a failed progress poll leaves error, progress, refreshing, rfps and
\* saved unchanged.
C10_PollFailureSilent ==
    [][failed' = "GET /progress" =>
         UNCHANGED <<error, progress, refreshing, rfps, saved>>]_vars

\* a poll failed while refreshing, after an earlier poll had set progress
C10_Witness ==
    failed = "GET /progress" /\ refreshing /\ progress # ZeroProgress

\* C11: while refreshing is true a poll loop is running: the step that makes
\* refreshing true issues a GET /progress at once (no timer wait), and every
\* poll of the running loop that settles, succeeded or failed, leaves the
\* timer of the next poll scheduled.
C11_PollKeepsRunning ==
    /\ [](refreshing => \E i \in 1..Len(pollers) :
             pollers[i].live /\ pollers[i].t \in {"none", "pending"})
    /\ [][(~refreshing /\ refreshing') =>
             \E i \in 1..Len(pollers') :
                pollers'[i].live /\ pollers'[i].t = "none"]_vars
    /\ [][\A i \in 1..Len(pollers) :
             (/\ pollers[i].live /\ pollers[i].t = "none" /\ refreshing'
              /\ Len(pollers') = Len(pollers) /\ pollers'[i] # pollers[i])
               => pollers'[i].live /\ pollers'[i].t = "pending"]_vars

\* the only poll loop there is saw its GET /progress fail and has the next
\* poll scheduled, the refresh still being in flight
C11_Witness ==
    /\ failed = "GET /progress" /\ refreshing
    /\ Len(pollers) = 1 /\ pollers[1].live /\ pollers[1].t = "pending"

\* C18: in every state in which a GET /rfps issued by loadRfps has not
\* settled, loading is true or refreshing is true (the Previous and Next
\* buttons are disabled).
C18_LoadingWhileListInFlight ==
    (listReqs # <<>> \/ InFlightCalls({"list"}) # {}) => (loading \/ refreshing)

\* C13 as stated: for total >= 0 and done >= 0 the percentage shown is an
\* integer in 0..100, is 0 when total = 0 and is 100 when done > total.
C13_PercentAsStated ==
    refreshing =>
        /\ ProgressBar(percent) \in 0..100
        /\ progress.total = 0 => ProgressBar(percent) = 0
        /\ progress.done > progress.total => ProgressBar(percent) = 100

\* C13 amended: the percentage shown is an integer in 0..100, is 0 when
\* total = 0 and is 100 when done > total > 0.
C13_PercentInRange ==
    refreshing =>
        /\ ProgressBar(percent) \in 0..100
        /\ progress.total = 0 => ProgressBar(percent) = 0
        /\ (progress.total > 0 /\ progress.done > progress.total)
             => ProgressBar(percent) = 100

\* the bar shows 100 for done = 14 of total = 12
C13_Witness ==
    /\ refreshing /\ progress.total = MaxTotal /\ progress.done > progress.total
    /\ ProgressBar(percent) = 100

\* C15: totalPages is max(1, ceil(totalCount / 100)), i.e. the least n >= 1
\* with n * 100 >= totalCount; page stays in 0..totalPages-1 under goNext
\* and goPrev, goNext on the last page and goPrev on page 0 return the page
\* they are given; totalCount = 250 gives totalPages = 3 and goNext from
\* page 2 gives page 2.
C15_PagesClamped ==
    /\ totalPages >= 1 /\ totalPages * 100 >= totalCount
    /\ totalPages > 1 => (totalPages - 1) * 100 < totalCount
    /\ page \in 0..(totalPages - 1)
    /\ goNext(page) \in 0..(totalPages - 1)
    /\ goPrev(page) \in 0..(totalPages - 1)
    /\ page = totalPages - 1 => goNext(page) = page
    /\ page = 0 => goPrev(page) = page
    /\ totalCount = 250 => (totalPages = 3 /\ (page = 2 => goNext(page) = 2))

\* 250 items, page 2 has been loaded, and goNext keeps page 2
C15_Witness ==
    /\ totalCount = 250 /\ page = 2 /\ totalPages = 3
    /\ rfps = PageItems(2) /\ ~loading /\ goNext(page) = 2

\* C14: for every due_date and every time zone, the view keeps an item
\* whose due_date is the client's current day, drops an item whose due_date
\* is the day before, and keeps an item without a due_date or with one that
\* does not parse.
C14_DueTodayKept ==
    \A r \in Range(rfps) :
        /\ r.due_date.kind \in {"none", "bad"} => r \in Range(filtered)
        /\ (r.due_date.kind \in {"date", "local"} /\ r.due_date.day = localDay)
             => r \in Range(filtered)
        /\ (r.due_date.kind \in {"date", "local"} /\ r.due_date.day = localDay - 1)
             => r \notin Range(filtered)

\* C16: for every item list and every non-empty query, filtering the
\* filtered result again with the same query gives the filtered result.
C16_FilterIdempotent ==
    q # <<>> => filterItems(filtered, q) = filtered

\* the query "a" keeps one of two active items, and filtering again keeps it
C16_Witness ==
    /\ q = <<"a">> /\ Len(rfps) = 2 /\ \A i \in 1..2 : isActive(rfps[i])
    /\ Len(filtered) = 1 /\ filterItems(filtered, q) = filtered

\* an item one of whose three fields contains the term, case-insensitively
fieldContains(r, term) ==
    \/ Contains(toLowerCase(r.title), term)
    \/ Contains(toLowerCase(r.summary), term)
    \/ Contains(toLowerCase(r.agency), term)

\* C19: with a non-empty query the filtered view holds exactly the active
\* items one of whose fields title, summary, agency contains, on its own,
\* the trimmed query case-insensitively; a query that matches only across
\* the boundary between two fields selects nothing.
C19_MatchWithinOneField ==
    LET term == toLowerCase(trim(q))
    IN  term # <<>> =>
          Range(filtered) =
            {r \in Range(rfps) : isActive(r) /\ fieldContains(r, term)}

\* the requests whose failure is the failure of an action of the user
UserActionRequests ==
    {"GET /rfps", "POST /refresh", "POST /rfps/id/save", "DELETE /saved/id",
     "POST /saved/id/upload", "POST /saved/id/notes", "GET /saved/id"}

\* C12: a step that sees the request of a user-initiated action fail
\* (network failure, non-2xx status or unparseable body) leaves a non-empty
\* error string.
C12_FailureShowsError ==
    [][failed' \in UserActionRequests => error' # <<>>]_vars

\* C17: when the upload for the open detail succeeds, the open detail is
\* that item and its documents contain the uploaded file; and a detail
\* fetch issued while the backend holds the file (after the upload, the
\* item not removed since) shows the file when it succeeds.
C17_UploadShownAndReopened ==
    [][/\ \A i \in 1..Len(calls) :
            handleUploadSettles(i, "ok")
              => detail' = calls[i].id /\ calls[i].file \in detailDocs'
       /\ \A k \in 1..Len(detailReqs), docs \in SUBSET Files, f \in Files :
            (DetailDone(k, "ok", docs) /\ \A d \in detailReqs[k].seen : f \in d)
              => detail' = detailReqs[k].id /\ f \in detailDocs']_vars

\* the upload has succeeded, the detail has been closed and the fetch of
\* its reopening is in flight
C17_Witness ==
    /\ detail = NoDetail /\ calls = <<>> /\ ~uploading /\ error = <<>>
    /\ "scope.pdf" \in srvDocs
    /\ Len(detailReqs) = 1 /\ \A d \in detailReqs[1].seen : "scope.pdf" \in d

\* what C20 says of every invocation apart from what follows a success:
\* an invocation starts with its one mutating request, loadSaved() is issued
\* only by the step that settles that request with the backend's answer,
\* and no second mutating request follows
C20_Frame ==
    /\ Len(calls') > Len(calls) => calls'[Len(calls')].pc = "mutate"
    /\ Len(calls') = Len(calls) =>
         \A i \in 1..Len(calls) :
            /\ (calls'[i].pc = "refetch" /\ calls[i].pc # "refetch")
                 => calls[i].pc = "mutate" /\ calls[i].resp # "none"
            /\ calls[i].pc = "refetch" => calls'[i].pc = "refetch"
    /\ \A i \in 1..Len(calls) :
         (handleSaveSettles(i, "ok") \/ handleUploadSettles(i, "ok")
            \/ handleRemoveSettles(i, "ok"))
           => Len(calls') = Len(calls) /\ calls'[i].pc = "refetch"

\* C20 as stated: save, remove, upload-document and add-note each issue one
\* mutating request and, when it succeeds, a refetch (GET /saved or
\* GET /saved/{rfp_id}); no refetch is issued before the mutating request
\* has settled.
C20_EveryActionRefetches ==
    [][/\ C20_Frame
       /\ \A i \in 1..Len(calls) :
            handleAddNoteSettles(i, "ok")
              => \/ Len(calls') = Len(calls) /\ calls'[i].pc = "refetch"
                 \/ Len(detailReqs') > Len(detailReqs)
                 \/ savedReqs' > savedReqs]_vars

\* C20 amended: save, remove and upload-document each issue one mutating
\* request and, when it succeeds, GET /saved, never before the mutating
\* request has settled; add-note issues one mutating request and, when it
\* succeeds, shows the detail of the response and issues no refetch.
C20_RefetchButAddNote ==
    [][/\ C20_Frame
       /\ \A i \in 1..Len(calls) :
            handleAddNoteSettles(i, "ok")
              => /\ calls' = Remove(calls, i)
                 /\ UNCHANGED <<detailReqs, savedReqs>>
                 /\ detail' = calls[i].id]_vars

\* the upload has succeeded, the detail shows the file and the loadSaved()
\* of the handler is in flight
C20_Witness ==
    \E i \in 1..Len(calls) :
        /\ calls[i].fn = "upload" /\ calls[i].pc = "refetch"
        /\ uploading /\ detail = calls[i].id /\ calls[i].file \in detailDocs

\* C21: once the panel is closed, detail stays null until the user opens a
\* saved item again: detail leaves null only in the step in which a fetch
\* issued by openSavedDetail settles, whatever else was in flight at the
\* close (upload, add-note, the detail refetch of a refresh).
C21_ClosedStaysClosed ==
    [][(detail = NoDetail /\ detail' # NoDetail)
         => \E k \in 1..Len(detailReqs), docs \in SUBSET Files :
               DetailDone(k, "ok", docs)]_vars

\* C22: in every reachable state, list-load completions that change
\* totalCount included, 0 <= page <= totalPages - 1.
C22_PageWithinPages == page \in 0..(totalPages - 1)

\* C23: when a list load succeeds with an array and leaves no GET /rfps in
\* flight, rfps holds the items of the current page: the response for
\* another page, or for a request older than the latest one, is not what
\* stays displayed.
C23_ListIsCurrentPage ==
    [][(/\ \E r \in ListResults :
             /\ r.out = "ok" /\ r.arr
             /\ \/ \E i \in 1..Len(listReqs) : ListDone(i, r)
                \/ \E i \in 1..Len(refreshCalls) : RefreshListDone(i, r)
        /\ listReqs' = <<>> /\ InFlightCalls({"list"})' = {})
         => rfps' = PageItems(page')]_vars

====
